---- MODULE Spec2Model ----
(***************************************************************************)
(* Work item link types (package link, workitem/link/type.go) and the      *)
(* subtype test and equality of work item types (package workitem).        *)
(*                                                                         *)
(* Go values are modelled as follows:                                      *)
(*   - a string is a TLA+ string, a satoriuuid.UUID of package link is the *)
(*     string of its textual form, an int is an integer;                   *)
(*   - a string of package workitem, where LtreeSafeID and strings.Contains *)
(*     work on the text, is the sequence of its characters, and a UUID of  *)
(*     that package is the sequence of its hexadecimal digits;             *)
(*   - a pointer is a sequence: <<>> is nil and <<v>> points to v;         *)
(*   - an error is a record; NoError is the nil error.                     *)
(***************************************************************************)
EXTENDS Integers, Sequences, FiniteSets, TLC

VARIABLES op, lt, err, in, prev, budget, other, equal, wit, typeID, isSub

vars == <<op, lt, err, in, prev, budget, other, equal, wit, typeID, isSub>>

(***************************************************************************)
(* Constants of package link.                                              *)
(***************************************************************************)
TopologyNetwork == "network"
TopologyDirectedNetwork == "directed_network"
TopologyDependency == "dependency"
TopologyTree == "tree"

\* satoriuuid.Nil, the zero UUID, and two other identifiers
NilUUID == "00000000-0000-0000-0000-000000000000"
UUID1 == "11111111-1111-1111-1111-111111111111"
UUID2 == "22222222-2222-2222-2222-222222222222"

\* *string, *int, *UUID
NilPtr == <<>>
Ptr(v) == <<v>>
Deref(p) == p[1]

(***************************************************************************)
(* Errors.  errors.NewBadParameterError(param, value) and its Expected()   *)
(* builder; errs.WithStack keeps the error and records a stack.            *)
(***************************************************************************)
NoError ==
    [kind |-> "nil", parameter |-> "", value |-> "", hasExpectedValue |-> FALSE,
     expectedValue |-> "", stack |-> FALSE]

NewBadParameterError(param, value) ==
    [kind |-> "BadParameterError", parameter |-> param, value |-> value,
     hasExpectedValue |-> FALSE, expectedValue |-> "", stack |-> FALSE]

Expected(e, exp) == [e EXCEPT !.hasExpectedValue = TRUE, !.expectedValue = exp]

WithStack(e) == [e EXCEPT !.stack = TRUE]

(***************************************************************************)
(* gormsupport.Lifecycle: creation, update and deletion timestamps.        *)
(***************************************************************************)
ZeroLifecycle == [CreatedAt |-> 0, UpdatedAt |-> 0, DeletedAt |-> NilPtr]

\* The zero value of struct WorkItemLinkType
ZeroLinkType ==
    [Lifecycle |-> ZeroLifecycle, ID |-> NilUUID, Name |-> "", Description |-> NilPtr,
     Version |-> 0, Topology |-> "", SourceTypeID |-> NilUUID, TargetTypeID |-> NilUUID,
     ForwardName |-> "", ReverseName |-> "", LinkCategoryID |-> NilUUID,
     SpaceID |-> NilUUID]

(***************************************************************************)
(* CheckValidTopology: nil for the four topology literals, otherwise a     *)
(* BadParameterError with the expected literals.                           *)
(***************************************************************************)
CheckValidTopologyNoTree(t) ==
    IF t # TopologyNetwork /\ t # TopologyDirectedNetwork /\ t # TopologyDependency
    THEN Expected(NewBadParameterError("topolgy", t),
                  "network|directed_network|dependency|tree")
    ELSE NoError

CheckValidTopology(t) ==
    IF t # TopologyNetwork /\ t # TopologyDirectedNetwork /\ t # TopologyDependency
       /\ t # TopologyTree
    THEN Expected(NewBadParameterError("topolgy", t),
                  "network|directed_network|dependency|tree")
    ELSE NoError

(***************************************************************************)
(* WorkItemLinkType.CheckValidForCreation: the first failing check returns.*)
(***************************************************************************)
CheckValidForCreationSwapped(t) ==
    IF t.Name = "" THEN NewBadParameterError("name", t.Name)
    ELSE IF t.ForwardName = "" THEN NewBadParameterError("forward_name", t.ForwardName)
    ELSE IF t.SourceTypeID = NilUUID
         THEN NewBadParameterError("source_type_name", t.SourceTypeID)
    ELSE IF t.TargetTypeID = NilUUID
         THEN NewBadParameterError("target_type_name", t.TargetTypeID)
    ELSE IF t.ReverseName = "" THEN NewBadParameterError("reverse_name", t.ReverseName)
    ELSE IF CheckValidTopology(t.Topology) # NoError
         THEN WithStack(CheckValidTopology(t.Topology))
    ELSE IF t.LinkCategoryID = NilUUID
         THEN NewBadParameterError("link_category_id", t.LinkCategoryID)
    ELSE IF t.SpaceID = NilUUID THEN NewBadParameterError("space_id", t.SpaceID)
    ELSE NoError

CheckValidForCreation(t) ==
    IF t.Name = "" THEN NewBadParameterError("name", t.Name)
    ELSE IF t.SourceTypeID = NilUUID
         THEN NewBadParameterError("source_type_name", t.SourceTypeID)
    ELSE IF t.TargetTypeID = NilUUID
         THEN NewBadParameterError("target_type_name", t.TargetTypeID)
    ELSE IF t.ForwardName = "" THEN NewBadParameterError("forward_name", t.ForwardName)
    ELSE IF t.ReverseName = "" THEN NewBadParameterError("reverse_name", t.ReverseName)
    ELSE IF CheckValidTopology(t.Topology) # NoError
         THEN WithStack(CheckValidTopology(t.Topology))
    ELSE IF t.LinkCategoryID = NilUUID
         THEN NewBadParameterError("link_category_id", t.LinkCategoryID)
    ELSE IF t.SpaceID = NilUUID THEN NewBadParameterError("space_id", t.SpaceID)
    ELSE NoError

(***************************************************************************)
(* Equality.  u convert.Equaler is a value with its dynamic type.          *)
(***************************************************************************)
Equaler(dyn, v) == [dyn |-> dyn, val |-> v]

strPtrIsNilOrContentIsEqual(l, r) ==
    IF l = NilPtr /\ r # NilPtr THEN FALSE
    ELSE IF l # NilPtr /\ r = NilPtr THEN FALSE
    ELSE IF l = NilPtr /\ r = NilPtr THEN TRUE
    ELSE Deref(l) = Deref(r)

\* gormsupport.Lifecycle.Equal: the three timestamps agree
LifecycleEqual(l, r) ==
    /\ l.CreatedAt = r.CreatedAt
    /\ l.UpdatedAt = r.UpdatedAt
    /\ strPtrIsNilOrContentIsEqual(l.DeletedAt, r.DeletedAt)

\* FieldDefinition.Equal: same required flag and same type descriptor
FieldDefinitionEqual(l, r) == l.Required = r.Required /\ l.Type = r.Type

\* the comparison of the reverse name is left out
LinkTypeEqualNoReverseName(t, u) ==
    IF u.dyn # "WorkItemLinkType" THEN FALSE
    ELSE IF ~LifecycleEqual(t.Lifecycle, u.val.Lifecycle) THEN FALSE
    ELSE IF t.ID # u.val.ID THEN FALSE
    ELSE IF t.Name # u.val.Name THEN FALSE
    ELSE IF t.Version # u.val.Version THEN FALSE
    ELSE IF ~strPtrIsNilOrContentIsEqual(t.Description, u.val.Description) THEN FALSE
    ELSE IF t.Topology # u.val.Topology THEN FALSE
    ELSE IF t.SourceTypeID # u.val.SourceTypeID THEN FALSE
    ELSE IF t.TargetTypeID # u.val.TargetTypeID THEN FALSE
    ELSE IF t.ForwardName # u.val.ForwardName THEN FALSE
    ELSE IF t.LinkCategoryID # u.val.LinkCategoryID THEN FALSE
    ELSE IF t.SpaceID # u.val.SpaceID THEN FALSE
    ELSE TRUE

\* WorkItemLinkType.Equal
LinkTypeEqual(t, u) ==
    IF u.dyn # "WorkItemLinkType" THEN FALSE
    ELSE IF ~LifecycleEqual(t.Lifecycle, u.val.Lifecycle) THEN FALSE
    ELSE IF t.ID # u.val.ID THEN FALSE
    ELSE IF t.Name # u.val.Name THEN FALSE
    ELSE IF t.Version # u.val.Version THEN FALSE
    ELSE IF ~strPtrIsNilOrContentIsEqual(t.Description, u.val.Description) THEN FALSE
    ELSE IF t.Topology # u.val.Topology THEN FALSE
    ELSE IF t.SourceTypeID # u.val.SourceTypeID THEN FALSE
    ELSE IF t.TargetTypeID # u.val.TargetTypeID THEN FALSE
    ELSE IF t.ForwardName # u.val.ForwardName THEN FALSE
    ELSE IF t.ReverseName # u.val.ReverseName THEN FALSE
    ELSE IF t.LinkCategoryID # u.val.LinkCategoryID THEN FALSE
    ELSE IF t.SpaceID # u.val.SpaceID THEN FALSE
    ELSE TRUE

\* WorkItemType.Equal
WitEqual(w, u) ==
    IF u.dyn # "WorkItemType" THEN FALSE
    ELSE IF w.ID # u.val.ID THEN FALSE
    ELSE IF ~LifecycleEqual(w.Lifecycle, u.val.Lifecycle) THEN FALSE
    ELSE IF w.Version # u.val.Version THEN FALSE
    ELSE IF w.Name # u.val.Name THEN FALSE
    ELSE IF ~strPtrIsNilOrContentIsEqual(w.Description, u.val.Description) THEN FALSE
    ELSE IF w.Icon # u.val.Icon THEN FALSE
    ELSE IF w.Path # u.val.Path THEN FALSE
    ELSE IF Cardinality(DOMAIN w.Fields) # Cardinality(DOMAIN u.val.Fields) THEN FALSE
    ELSE \A witKey \in DOMAIN w.Fields :
            /\ witKey \in DOMAIN u.val.Fields
            /\ FieldDefinitionEqual(w.Fields[witKey], u.val.Fields[witKey])

(***************************************************************************)
(* ConvertLinkTypeToModel(in, out), statement by statement.  Each step     *)
(* takes the record written so far and returns the record after the step   *)
(* and the error the step returns with (NoError: the function goes on).    *)
(***************************************************************************)
Step(o, e) == [out |-> o, err |-> e]

\* if in.Data.ID != nil { out.ID = *in.Data.ID }
ApplyID(data, o) ==
    IF data.ID # NilPtr THEN [o EXCEPT !.ID = Deref(data.ID)] ELSE o

NoUpdate == [Data |-> NilPtr]

\* the name is written before it is checked
ApplyNameUnchecked(attrs, o) ==
    IF attrs.Name # NilPtr
    THEN IF Deref(attrs.Name) = ""
         THEN Step([o EXCEPT !.Name = Deref(attrs.Name)],
                   NewBadParameterError("data.attributes.name", Deref(attrs.Name)))
         ELSE Step([o EXCEPT !.Name = Deref(attrs.Name)], NoError)
    ELSE Step(o, NoError)

ApplyName(attrs, o) ==
    IF attrs.Name # NilPtr
    THEN IF Deref(attrs.Name) = ""
         THEN Step(o, NewBadParameterError("data.attributes.name", Deref(attrs.Name)))
         ELSE Step([o EXCEPT !.Name = Deref(attrs.Name)], NoError)
    ELSE Step(o, NoError)

\* the description is copied without the nil test
ApplyDescriptionAlways(attrs, o) == [o EXCEPT !.Description = attrs.Description]

ApplyDescription(attrs, o) ==
    IF attrs.Description # NilPtr THEN [o EXCEPT !.Description = attrs.Description] ELSE o

ApplyVersion(attrs, o) ==
    IF attrs.Version # NilPtr THEN [o EXCEPT !.Version = Deref(attrs.Version)] ELSE o

ApplyForwardName(attrs, o) ==
    IF attrs.ForwardName # NilPtr
    THEN IF Deref(attrs.ForwardName) = ""
         THEN Step(o, NewBadParameterError("data.attributes.forward_name",
                                           Deref(attrs.ForwardName)))
         ELSE Step([o EXCEPT !.ForwardName = Deref(attrs.ForwardName)], NoError)
    ELSE Step(o, NoError)

ApplyReverseName(attrs, o) ==
    IF attrs.ReverseName # NilPtr
    THEN IF Deref(attrs.ReverseName) = ""
         THEN Step(o, NewBadParameterError("data.attributes.reverse_name",
                                           Deref(attrs.ReverseName)))
         ELSE Step([o EXCEPT !.ReverseName = Deref(attrs.ReverseName)], NoError)
    ELSE Step(o, NoError)

ApplyTopology(attrs, o) ==
    IF attrs.Topology # NilPtr
    THEN IF CheckValidTopology(Deref(attrs.Topology)) # NoError
         THEN Step(o, WithStack(CheckValidTopology(Deref(attrs.Topology))))
         ELSE Step([o EXCEPT !.Topology = Deref(attrs.Topology)], NoError)
    ELSE Step(o, NoError)

\* rel.X != nil && rel.X.Data != nil, for a relation X
HasData(relation) == relation # NilPtr /\ Deref(relation).Data # NilPtr
DataOf(relation) == Deref(Deref(relation).Data)

ApplyLinkCategory(rel, o) ==
    IF HasData(rel.LinkCategory)
    THEN [o EXCEPT !.LinkCategoryID = DataOf(rel.LinkCategory).ID] ELSE o

ApplySourceType(rel, o) ==
    IF HasData(rel.SourceType)
    THEN [o EXCEPT !.SourceTypeID = DataOf(rel.SourceType).ID] ELSE o

ApplyTargetType(rel, o) ==
    IF HasData(rel.TargetType)
    THEN [o EXCEPT !.TargetTypeID = DataOf(rel.TargetType).ID] ELSE o

\* out.SpaceID = *rel.Space.Data.ID: the ID of a space relation is a pointer,
\* and dereferencing nil panics
Panic ==
    [kind |-> "panic", parameter |-> "", value |-> "nil pointer dereference",
     hasExpectedValue |-> FALSE, expectedValue |-> "", stack |-> FALSE]

ApplySpace(rel, o) ==
    IF HasData(rel.Space)
    THEN IF DataOf(rel.Space).ID = NilPtr
         THEN Step(o, Panic)
         ELSE Step([o EXCEPT !.SpaceID = Deref(DataOf(rel.Space).ID)], NoError)
    ELSE Step(o, NoError)

\* the attribute block, lines 233-272
ApplyAttributes(attrs, o) ==
    LET n == ApplyName(attrs, o) IN
    IF n.err # NoError THEN n ELSE
    LET f == ApplyForwardName(attrs, ApplyVersion(attrs, ApplyDescription(attrs, n.out))) IN
    IF f.err # NoError THEN f ELSE
    LET r == ApplyReverseName(attrs, f.out) IN
    IF r.err # NoError THEN r ELSE
    ApplyTopology(attrs, r.out)

\* the relationship block, lines 274-285
ApplyRelationships(rel, o) ==
    ApplySpace(rel, ApplyTargetType(rel, ApplySourceType(rel, ApplyLinkCategory(rel, o))))

ConvertLinkTypeToModel(i, o) ==
    IF i.Data = NilPtr
    THEN Step(o, Expected(NewBadParameterError("data", "<nil>"), "not <nil>"))
    ELSE IF Deref(i.Data).Attributes = NilPtr
    THEN Step(o, Expected(NewBadParameterError("data.attributes", "<nil>"), "not <nil>"))
    ELSE IF Deref(i.Data).Relationships = NilPtr
    THEN Step(o, Expected(NewBadParameterError("data.relationships", "<nil>"),
                          "not <nil>"))
    ELSE LET a == ApplyAttributes(Deref(Deref(i.Data).Attributes),
                                  ApplyID(Deref(i.Data), o))
         IN  IF a.err # NoError THEN a
             ELSE ApplyRelationships(Deref(Deref(i.Data).Relationships), a.out)

(***************************************************************************)
(* Inputs of the validation functions.                                     *)
(***************************************************************************)
NameInputs == {"", "Bug blocker"}
UUIDInputs == {NilUUID, UUID1}
TopologyInputs ==
    {"", "network", "directed_network", "dependency", "tree",
     "Tree", "NETWORK", "Dependency", "directed-network", "graph"}

ValidationInputs ==
    {[ZeroLinkType EXCEPT !.Name = n, !.SourceTypeID = s, !.TargetTypeID = g,
                          !.ForwardName = f, !.ReverseName = r, !.Topology = y,
                          !.LinkCategoryID = c, !.SpaceID = p] :
        n \in NameInputs, s \in UUIDInputs, g \in UUIDInputs, f \in NameInputs,
        r \in NameInputs, y \in TopologyInputs, c \in UUIDInputs, p \in UUIDInputs}

(***************************************************************************)
(* Package workitem.  A UUID has NumGroups groups of GroupLen hexadecimal   *)
(* digits; String() writes the groups with hyphens between them.           *)
(***************************************************************************)
NumGroups == 2
GroupLen == 1
MaxDepth == 3

HexDigits == {"1", "a"}
pathSep == <<".">>

\* The identifiers of the types: digits all alike, but for the last one
WitUUIDs ==
    {u \in [1..(NumGroups * GroupLen) -> HexDigits] :
        \A k \in 2..(NumGroups * GroupLen - 1) : u[k] = u[1]}
WitNilUUID == [k \in 1..(NumGroups * GroupLen) |-> "0"]

RECURSIVE GroupsString(_, _)
GroupsString(u, g) ==
    IF g = 0 THEN <<>>
    ELSE GroupsString(u, g - 1) \o (IF g = 1 THEN <<>> ELSE <<"-">>)
            \o SubSeq(u, (g - 1) * GroupLen + 1, g * GroupLen)

\* satoriuuid.UUID.String()
UUIDString(u) == GroupsString(u, NumGroups)

\* strings.Replace(s, old, new, -1) for a one-character old
Replace(s, old, new) == [k \in 1..Len(s) |-> IF s[k] = old THEN new ELSE s[k]]

\* strings.Contains(s, substr)
Contains(s, substr) ==
    \E k \in 0..(Len(s) - Len(substr)) : SubSeq(s, k + 1, k + Len(substr)) = substr

LtreeSafeID(witID) == Replace(UUIDString(witID), "-", "_")

\* FieldDefinitions, a map from field names to field definitions
FieldNames == {"system.title", "system.state"}
NoFields == [k \in {} |-> [Required |-> FALSE, Type |-> "string"]]

\* The zero value of struct WorkItemType
ZeroWit ==
    [Lifecycle |-> ZeroLifecycle, ID |-> WitNilUUID, Name |-> "", Description |-> NilPtr,
     Icon |-> "", Version |-> 0, Path |-> <<>>, Fields |-> NoFields]

\* the test of the path alone, without the test of the type's own ID
IsTypeOrSubtypeOfPathOnly(w, id) == Contains(w.Path, LtreeSafeID(id) \o pathSep)

IsTypeOrSubtypeOf(w, id) ==
    w.ID = id \/ Contains(w.Path, LtreeSafeID(id) \o pathSep)

\* The path of a type: the sanitized identifiers of its ancestors from the
\* root down to the type itself, joined by the separator
RECURSIVE PathOf(_)
PathOf(chain) ==
    IF Len(chain) = 1 THEN LtreeSafeID(chain[1])
    ELSE PathOf(SubSeq(chain, 1, Len(chain) - 1)) \o pathSep
            \o LtreeSafeID(chain[Len(chain)])

\* Chains of types from a root down, no type twice
Chains ==
    UNION {{c \in [1..n -> WitUUIDs] : \A j, k \in 1..n : j # k => c[j] # c[k]} :
             n \in 1..MaxDepth}

TypeOfChain(chain) ==
    [ZeroWit EXCEPT !.ID = chain[Len(chain)], !.Path = PathOf(chain)]


\* The variables of the other operations rest at these values
RestLink == lt = ZeroLinkType /\ err = NoError
RestConvert == in = NoUpdate /\ prev = ZeroLinkType /\ budget = 0
RestEqual == other = Equaler("WorkItemLinkType", ZeroLinkType) /\ equal = FALSE
RestWit == wit = ZeroWit
RestSubtype == typeID = WitNilUUID /\ isSub = FALSE

(***************************************************************************)
(* Validation: a caller validates the link type record it holds, or the    *)
(* topology of it.                                                         *)
(***************************************************************************)
InitValidate ==
    /\ op = "none"
    /\ lt \in ValidationInputs
    /\ err = NoError
    /\ RestConvert /\ RestEqual /\ RestWit /\ RestSubtype

ValidateForCreation ==
    /\ op' = "CheckValidForCreation"
    /\ err' = CheckValidForCreation(lt)
    /\ UNCHANGED <<lt, in, prev, budget, other, equal, wit, typeID, isSub>>

ValidateTopology ==
    /\ op' = "CheckValidTopology"
    /\ err' = CheckValidTopology(lt.Topology)
    /\ UNCHANGED <<lt, in, prev, budget, other, equal, wit, typeID, isSub>>

NextValidate == ValidateForCreation \/ ValidateTopology

SpecValidate == InitValidate /\ [][NextValidate]_vars

(***************************************************************************)
(* Partial updates (app.WorkItemLinkTypeSingle): every member is a pointer *)
(* that may be nil, except the ID of a link category, source type or       *)
(* target type relation, which is a UUID value.                            *)
(***************************************************************************)
MaxVersion == 1
MaxPresent == 2

OtherName == "Related planner item"

OptNames == {NilPtr, Ptr(""), Ptr(OtherName)}

AttrUpdates ==
    [Name : OptNames,
     Description : {NilPtr, Ptr("")},
     Version : {NilPtr} \cup {Ptr(v) : v \in 0..MaxVersion},
     ForwardName : OptNames,
     ReverseName : OptNames,
     Topology : {NilPtr, Ptr("tree"), Ptr("dependency"), Ptr("Tree"), Ptr("")}]

\* a relation whose data carries a UUID value
TypeRelations ==
    {NilPtr, Ptr([Data |-> NilPtr])}
        \cup {Ptr([Data |-> Ptr([ID |-> u])]) : u \in {NilUUID, UUID2}}

\* app.RelationSpaces: the ID of the data is a pointer
SpaceRelations ==
    {NilPtr, Ptr([Data |-> NilPtr]), Ptr([Data |-> Ptr([ID |-> NilPtr])])}
        \cup {Ptr([Data |-> Ptr([ID |-> Ptr(u)])]) : u \in {NilUUID, UUID2}}

RelUpdates ==
    [LinkCategory : TypeRelations, SourceType : TypeRelations,
     TargetType : TypeRelations, Space : SpaceRelations]

\* number of members of the update that are not nil
AttrsPresent(a) ==
    Cardinality({k \in {"Name", "Description", "Version", "ForwardName", "ReverseName",
                        "Topology"} : a[k] # NilPtr})

RelsPresent(r) ==
    Cardinality({k \in {"LinkCategory", "SourceType", "TargetType", "Space"} :
                    r[k] # NilPtr})

Present(i) ==
    IF i.Data = NilPtr THEN 0
    ELSE (IF Deref(i.Data).ID = NilPtr THEN 0 ELSE 1)
         + (IF Deref(i.Data).Attributes = NilPtr THEN 0
            ELSE AttrsPresent(Deref(Deref(i.Data).Attributes)))
         + (IF Deref(i.Data).Relationships = NilPtr THEN 0
            ELSE RelsPresent(Deref(Deref(i.Data).Relationships)))

Updates ==
    {NoUpdate} \cup
    {i \in [Data : {Ptr(d) : d \in
                [ID : {NilPtr, Ptr(UUID2)},
                 Attributes : {NilPtr} \cup {Ptr(y) : y \in AttrUpdates},
                 Relationships : {NilPtr} \cup {Ptr(y) : y \in RelUpdates}]}] :
        Present(i) <= MaxPresent}

\* The updates, each with the number of members it presents
SizedUpdates == {<<Present(i), i>> : i \in Updates}

\* A link type as the repository stores it
StoredLinkType ==
    [Lifecycle |-> ZeroLifecycle, ID |-> UUID1, Name |-> "Bug blocker",
     Description |-> Ptr("blocks"), Version |-> 0, Topology |-> "network",
     SourceTypeID |-> UUID1, TargetTypeID |-> UUID1, ForwardName |-> "blocks",
     ReverseName |-> "blocked by", LinkCategoryID |-> UUID1, SpaceID |-> UUID1]

(***************************************************************************)
(* Updating: the caller holds a new (zero) record or a stored one and      *)
(* applies updates to it, one call after the other, whatever the calls     *)
(* return.  budget bounds the members the updates of a run present.        *)
(***************************************************************************)
InitConvert ==
    /\ op = "none"
    /\ lt \in {ZeroLinkType, StoredLinkType}
    /\ prev = lt
    /\ err = NoError
    /\ in = NoUpdate
    /\ budget = MaxPresent
    /\ RestEqual /\ RestWit /\ RestSubtype

Convert ==
    \E u \in SizedUpdates :
        /\ u[1] <= budget
        /\ budget' = budget - u[1]
        /\ op' = "ConvertLinkTypeToModel"
        /\ in' = u[2]
        /\ prev' = lt
        /\ LET res == ConvertLinkTypeToModel(u[2], lt)
           IN  lt' = res.out /\ err' = res.err
        /\ UNCHANGED <<other, equal, wit, typeID, isSub>>

NextConvert == Convert

SpecConvert == InitConvert /\ [][NextConvert]_vars

\* The members of the last update
InData == Deref(in.Data)
InAttrs == Deref(InData.Attributes)
InRel == Deref(InData.Relationships)

\* The last call returned nil
Converted == op = "ConvertLinkTypeToModel" /\ err = NoError

\* C4: when ConvertLinkTypeToModel returns without error, every attribute of
\* the record whose counterpart is absent from the update keeps its value, and
\* every attribute present in the update holds the update's value.
C4_OnlyPresentOverwritten ==
    Converted =>
        /\ lt.ID = IF InData.ID = NilPtr THEN prev.ID ELSE Deref(InData.ID)
        /\ lt.Name = IF InAttrs.Name = NilPtr THEN prev.Name ELSE Deref(InAttrs.Name)
        /\ lt.Description =
              IF InAttrs.Description = NilPtr THEN prev.Description
              ELSE InAttrs.Description
        /\ lt.Version =
              IF InAttrs.Version = NilPtr THEN prev.Version ELSE Deref(InAttrs.Version)
        /\ lt.ForwardName =
              IF InAttrs.ForwardName = NilPtr THEN prev.ForwardName
              ELSE Deref(InAttrs.ForwardName)
        /\ lt.ReverseName =
              IF InAttrs.ReverseName = NilPtr THEN prev.ReverseName
              ELSE Deref(InAttrs.ReverseName)
        /\ lt.Topology =
              IF InAttrs.Topology = NilPtr THEN prev.Topology
              ELSE Deref(InAttrs.Topology)
        /\ lt.LinkCategoryID =
              IF HasData(InRel.LinkCategory) THEN DataOf(InRel.LinkCategory).ID
              ELSE prev.LinkCategoryID
        /\ lt.SourceTypeID =
              IF HasData(InRel.SourceType) THEN DataOf(InRel.SourceType).ID
              ELSE prev.SourceTypeID
        /\ lt.TargetTypeID =
              IF HasData(InRel.TargetType) THEN DataOf(InRel.TargetType).ID
              ELSE prev.TargetTypeID
        /\ lt.SpaceID =
              IF HasData(InRel.Space) THEN Deref(DataOf(InRel.Space).ID)
              ELSE prev.SpaceID
        /\ lt.Lifecycle = prev.Lifecycle

\* C4 witness: an update of the version and the space of a stored record
C4_Witness ==
    /\ Converted
    /\ InAttrs.Version = Ptr(1) /\ InAttrs.Description = NilPtr
    /\ HasData(InRel.Space)
    /\ prev = StoredLinkType
    /\ lt = [StoredLinkType EXCEPT !.Version = 1, !.SpaceID = UUID2]

\* C5: if the record passed CheckValidForCreation before an update that
\* ConvertLinkTypeToModel applied without error, the merged record passes it.
C5_MergedStaysValid ==
    (Converted /\ CheckValidForCreation(prev) = NoError) =>
        CheckValidForCreation(lt) = NoError

\* An update that presents the attribute topology = tree and nothing else
TopologyTreeOnly ==
    [Data |-> Ptr([ID |-> NilPtr,
                   Attributes |-> Ptr([Name |-> NilPtr, Description |-> NilPtr,
                                       Version |-> NilPtr, ForwardName |-> NilPtr,
                                       ReverseName |-> NilPtr,
                                       Topology |-> Ptr("tree")]),
                   Relationships |-> NilPtr])]

\* C6: an update that presents only topology = tree, no other attribute and no
\* relationships, is accepted on a fully valid record, sets the topology to
\* tree and leaves every other attribute unchanged.
C6_TopologyOnlyAccepted ==
    (op = "ConvertLinkTypeToModel" /\ in = TopologyTreeOnly
        /\ CheckValidForCreation(prev) = NoError) =>
        /\ err = NoError
        /\ lt = [prev EXCEPT !.Topology = "tree"]

\* C9: a record whose name, forward_name and reverse_name are non-empty still
\* has them non-empty after every call of ConvertLinkTypeToModel, whether the
\* call succeeded or not.
C9_NamesStayNonEmpty ==
    op = "ConvertLinkTypeToModel" =>
        /\ prev.Name # "" => lt.Name # ""
        /\ prev.ForwardName # "" => lt.ForwardName # ""
        /\ prev.ReverseName # "" => lt.ReverseName # ""

\* C9 witness: a refused empty name, in the second call on the record
C9_Witness ==
    /\ op = "ConvertLinkTypeToModel"
    /\ in.Data # NilPtr /\ InData.Attributes # NilPtr /\ InData.Relationships # NilPtr
    /\ InAttrs.Name = Ptr("")
    /\ err.parameter = "data.attributes.name"
    /\ prev.ForwardName = OtherName /\ prev.Name = "Bug blocker"
    /\ lt.Name = "Bug blocker"

\* C10: when ConvertLinkTypeToModel returns an error the record is as it was
\* before the call.
C10_ErrorLeavesRecord ==
    (op = "ConvertLinkTypeToModel" /\ err.kind = "BadParameterError") => lt = prev

(***************************************************************************)
(* Subtype queries: a caller asks whether a type of the hierarchy is the   *)
(* type with a given identifier or a subtype of it.                        *)
(***************************************************************************)
InitSubtype ==
    /\ op = "none"
    /\ wit \in {TypeOfChain(c) : c \in Chains}
    /\ typeID \in WitUUIDs
    /\ isSub = FALSE
    /\ RestLink /\ RestConvert /\ RestEqual

SubtypeQuery ==
    /\ op' = "IsTypeOrSubtypeOf"
    /\ isSub' = IsTypeOrSubtypeOf(wit, typeID)
    /\ UNCHANGED <<lt, err, in, prev, budget, other, equal, wit, typeID>>

NextSubtype == SubtypeQuery

SpecSubtype == InitSubtype /\ [][NextSubtype]_vars

\* The segments of a path: the parts between the separators
RECURSIVE Segments(_)
Segments(path) ==
    IF \A k \in 1..Len(path) : path[k] # "."
    THEN {path}
    ELSE LET k == CHOOSE j \in 1..Len(path) :
                    path[j] = "." /\ \A m \in 1..(j - 1) : path[m] # "."
         IN  {SubSeq(path, 1, k - 1)} \cup Segments(SubSeq(path, k + 1, Len(path)))

\* C7: for a type whose path is the chain of the sanitized identifiers of its
\* ancestors down to itself, IsTypeOrSubtypeOf(T, X) is true iff X is the
\* identifier of T or of an ancestor listed in the path of T.
C7_SubtypeIffListed ==
    op = "IsTypeOrSubtypeOf" =>
        (isSub <=> (typeID = wit.ID \/ LtreeSafeID(typeID) \in Segments(wit.Path)))

\* C7 witness: the root of a chain of three is found, and a type that is not
\* in the chain is not
C7_Witness ==
    /\ op = "IsTypeOrSubtypeOf"
    /\ Cardinality(Segments(wit.Path)) = 3
    /\ typeID # wit.ID
    /\ SubSeq(wit.Path, 1, Len(LtreeSafeID(typeID))) = LtreeSafeID(typeID)
    /\ isSub

(***************************************************************************)
(* Comparing records: copies of a stored record that differ from it in at  *)
(* most MaxDiff attributes are compared with each other.                   *)
(***************************************************************************)
MaxDiff == 1

\* The copies of link type r with one attribute changed
LinkTypeChanges(r) ==
    {[r EXCEPT !.Lifecycle.CreatedAt = 1 - @], [r EXCEPT !.Lifecycle.UpdatedAt = 1 - @]}
    \cup {[r EXCEPT !.Lifecycle.DeletedAt = v] : v \in {NilPtr, Ptr(0), Ptr(1)}}
    \cup {[r EXCEPT !.ID = v] : v \in {UUID1, UUID2}}
    \cup {[r EXCEPT !.Name = v] : v \in {"Bug blocker", OtherName}}
    \cup {[r EXCEPT !.Version = 1 - @]}
    \cup {[r EXCEPT !.Description = v] : v \in {NilPtr, Ptr(""), Ptr("blocks")}}
    \cup {[r EXCEPT !.Topology = v] : v \in {"network", "tree"}}
    \cup {[r EXCEPT !.SourceTypeID = v] : v \in {UUID1, UUID2}}
    \cup {[r EXCEPT !.TargetTypeID = v] : v \in {UUID1, UUID2}}
    \cup {[r EXCEPT !.ForwardName = v] : v \in {"blocks", OtherName}}
    \cup {[r EXCEPT !.ReverseName = v] : v \in {"blocked by", OtherName}}
    \cup {[r EXCEPT !.LinkCategoryID = v] : v \in {UUID1, UUID2}}
    \cup {[r EXCEPT !.SpaceID = v] : v \in {UUID1, UUID2}}

RECURSIVE LinkTypeCopies(_)
LinkTypeCopies(n) ==
    IF n = 0 THEN {StoredLinkType}
    ELSE LinkTypeCopies(n - 1) \cup UNION {LinkTypeChanges(r) : r \in LinkTypeCopies(n - 1)}

TitleField == [Required |-> TRUE, Type |-> "string"]

\* A work item type as the repository stores it
StoredWit ==
    [Lifecycle |-> ZeroLifecycle, ID |-> [k \in 1..(NumGroups * GroupLen) |-> "a"],
     Name |-> "bug", Description |-> Ptr("a bug"), Icon |-> "fa-bug", Version |-> 0,
     Path |-> PathOf(<<[k \in 1..(NumGroups * GroupLen) |-> "1"],
                       [k \in 1..(NumGroups * GroupLen) |-> "a"]>>),
     Fields |-> [k \in {"system.title"} |-> TitleField]]

\* The copies of work item type r with one attribute changed
WitChanges(r) ==
    {[r EXCEPT !.Lifecycle.CreatedAt = 1 - @], [r EXCEPT !.Lifecycle.UpdatedAt = 1 - @]}
    \cup {[r EXCEPT !.Lifecycle.DeletedAt = v] : v \in {NilPtr, Ptr(0), Ptr(1)}}
    \cup {[r EXCEPT !.ID = v] :
            v \in {[k \in 1..(NumGroups * GroupLen) |-> d] : d \in HexDigits}}
    \cup {[r EXCEPT !.Name = v] : v \in {"bug", "feature"}}
    \cup {[r EXCEPT !.Version = 1 - @]}
    \cup {[r EXCEPT !.Description = v] : v \in {NilPtr, Ptr(""), Ptr("a bug")}}
    \cup {[r EXCEPT !.Icon = v] : v \in {"fa-bug", ""}}
    \cup {[r EXCEPT !.Path = v] : v \in {StoredWit.Path, LtreeSafeID(StoredWit.ID)}}
    \cup {[r EXCEPT !.Fields = [k \in D |-> IF k \in DOMAIN r.Fields THEN r.Fields[k]
                                             ELSE TitleField]] : D \in SUBSET FieldNames}
    \cup {[r EXCEPT !.Fields = [k \in DOMAIN r.Fields |->
                                    IF k = c THEN [r.Fields[k] EXCEPT !.Required = ~@]
                                    ELSE r.Fields[k]]] : c \in DOMAIN r.Fields}
    \cup {[r EXCEPT !.Fields = [k \in DOMAIN r.Fields |->
                                    IF k = c THEN [r.Fields[k] EXCEPT !.Type = "integer"]
                                    ELSE r.Fields[k]]] : c \in DOMAIN r.Fields}

RECURSIVE WitCopies(_)
WitCopies(n) ==
    IF n = 0 THEN {StoredWit}
    ELSE WitCopies(n - 1) \cup UNION {WitChanges(r) : r \in WitCopies(n - 1)}

InitEqual ==
    /\ op = "none"
    /\ equal = FALSE
    /\ \/ /\ lt \in LinkTypeCopies(MaxDiff)
          /\ other \in {Equaler(dyn, u) : dyn \in {"WorkItemLinkType", "*WorkItemLinkType"},
                                          u \in LinkTypeCopies(MaxDiff)}
          /\ wit = ZeroWit
       \/ /\ wit \in WitCopies(MaxDiff)
          /\ other \in {Equaler(dyn, u) : dyn \in {"WorkItemType", "*WorkItemType"},
                                          u \in WitCopies(MaxDiff)}
          /\ lt = ZeroLinkType
    /\ err = NoError
    /\ RestConvert /\ RestSubtype

EqualLinkTypes ==
    /\ op' = "WorkItemLinkType.Equal"
    /\ equal' = LinkTypeEqual(lt, other)
    /\ UNCHANGED <<lt, other, err, in, prev, budget, wit, typeID, isSub>>

EqualWits ==
    /\ op' = "WorkItemType.Equal"
    /\ equal' = WitEqual(wit, other)
    /\ UNCHANGED <<wit, other, lt, err, in, prev, budget, typeID, isSub>>

NextEqual == EqualLinkTypes \/ EqualWits

SpecEqual == InitEqual /\ [][NextEqual]_vars

\* C8: Equal on two WorkItemLinkType records, and on two WorkItemType
\* records, is true iff the records agree on every attribute (lifecycle
\* timestamps, version and an unset or set description included); it gives
\* the same answer with the two records exchanged.
C8_EqualIffAllAttributesAgree ==
    /\ (op = "WorkItemLinkType.Equal" /\ other.dyn = "WorkItemLinkType") =>
          /\ equal <=> \A k \in DOMAIN lt : lt[k] = other.val[k]
          /\ equal <=> LinkTypeEqual(other.val, Equaler("WorkItemLinkType", lt))
    /\ (op = "WorkItemType.Equal" /\ other.dyn = "WorkItemType") =>
          /\ equal <=> \A k \in DOMAIN wit : wit[k] = other.val[k]
          /\ equal <=> WitEqual(other.val, Equaler("WorkItemType", wit))

\* C8 witness: two link types that differ only in an unset and an empty
\* description compare unequal
C8_Witness ==
    /\ op = "WorkItemLinkType.Equal" /\ other.dyn = "WorkItemLinkType"
    /\ lt.Description = NilPtr /\ other.val.Description = Ptr("")
    /\ other.val = [lt EXCEPT !.Description = Ptr("")]
    /\ ~equal

(***************************************************************************)
(* Properties of the validation functions.                                 *)
(***************************************************************************)
ValidTopologies == {"network", "directed_network", "dependency", "tree"}

\* The order of the checks and the field each check is about
FieldOrder ==
    <<"name", "source_type_id", "target_type_id", "forward_name", "reverse_name",
      "topology", "link_category_id", "space_id">>

\* Field i of t is empty, nil or (topology) not a valid literal
FieldFails(t, i) ==
    CASE i = 1 -> t.Name = ""
      [] i = 2 -> t.SourceTypeID = NilUUID
      [] i = 3 -> t.TargetTypeID = NilUUID
      [] i = 4 -> t.ForwardName = ""
      [] i = 5 -> t.ReverseName = ""
      [] i = 6 -> t.Topology \notin ValidTopologies
      [] i = 7 -> t.LinkCategoryID = NilUUID
      [] i = 8 -> t.SpaceID = NilUUID

AllFieldsPass(t) == \A i \in 1..8 : ~FieldFails(t, i)

FirstFailing(t) == CHOOSE i \in 1..8 : FieldFails(t, i) /\ \A j \in 1..(i - 1) : ~FieldFails(t, j)

GoodLinkType ==
    [ZeroLinkType EXCEPT !.Name = "Bug blocker", !.SourceTypeID = UUID1,
                         !.TargetTypeID = UUID1, !.ForwardName = "Bug blocker",
                         !.ReverseName = "Bug blocker", !.Topology = "network",
                         !.LinkCategoryID = UUID1, !.SpaceID = UUID1]

\* A record in which field i is the one of t and every other field passes
OnlyField(t, i) ==
    CASE i = 1 -> [GoodLinkType EXCEPT !.Name = t.Name]
      [] i = 2 -> [GoodLinkType EXCEPT !.SourceTypeID = t.SourceTypeID]
      [] i = 3 -> [GoodLinkType EXCEPT !.TargetTypeID = t.TargetTypeID]
      [] i = 4 -> [GoodLinkType EXCEPT !.ForwardName = t.ForwardName]
      [] i = 5 -> [GoodLinkType EXCEPT !.ReverseName = t.ReverseName]
      [] i = 6 -> [GoodLinkType EXCEPT !.Topology = t.Topology]
      [] i = 7 -> [GoodLinkType EXCEPT !.LinkCategoryID = t.LinkCategoryID]
      [] i = 8 -> [GoodLinkType EXCEPT !.SpaceID = t.SpaceID]

\* C1: CheckValidForCreation returns no error iff all eight fields pass, and
\* otherwise exactly the error of the first failing field in the order name,
\* source_type_id, target_type_id, forward_name, reverse_name, topology,
\* link_category_id, space_id: the error the record gets in which only that
\* field fails, different from the error of every other field, whatever the
\* later fields hold.
C1_FirstFailingFieldWins ==
    op = "CheckValidForCreation" =>
        /\ (err = NoError) <=> AllFieldsPass(lt)
        /\ ~AllFieldsPass(lt) =>
              /\ err.kind = "BadParameterError"
              /\ err = CheckValidForCreation(OnlyField(lt, FirstFailing(lt)))
              /\ \A j \in 1..8 :
                    j # FirstFailing(lt) =>
                        err.parameter #
                            CheckValidForCreation(OnlyField(ZeroLinkType, j)).parameter

\* C1 witness: source type and forward name both fail, the source type error wins
C1_Witness ==
    /\ op = "CheckValidForCreation"
    /\ lt.Name # "" /\ lt.SourceTypeID = NilUUID /\ lt.ForwardName = ""
    /\ lt.SpaceID = NilUUID
    /\ err.kind = "BadParameterError" /\ err.value = NilUUID
    /\ err.parameter = "source_type_name"

\* C2: CheckValidTopology returns no error for exactly network,
\* directed_network, dependency and tree, and a BadParameterError for every
\* other string, the empty string and case variants included.
C2_TopologyLiterals ==
    op = "CheckValidTopology" =>
        /\ (err = NoError) <=> lt.Topology \in ValidTopologies
        /\ lt.Topology \notin ValidTopologies => err.kind = "BadParameterError"

\* C2 witness: the case variant Tree is rejected, and tree is accepted
C2_Witness ==
    /\ op = "CheckValidTopology"
    /\ \/ lt.Topology = "Tree" /\ err.kind = "BadParameterError"
       \/ lt.Topology = "tree" /\ err = NoError

\* C3: every BadParameterError of CheckValidForCreation and CheckValidTopology
\* names the offending field by its own name (source_type_id, target_type_id,
\* topology, name, forward_name, reverse_name, link_category_id, space_id).
C3_ErrorNamesField ==
    /\ (op = "CheckValidForCreation" /\ err # NoError) =>
            err.parameter = FieldOrder[FirstFailing(lt)]
    /\ (op = "CheckValidTopology" /\ err # NoError) => err.parameter = "topology"

====
